---- MODULE Spec2Model ----
(***************************************************************************)
(* State-machine model of the three Soroban contracts of the repository:   *)
(*   contracts/escrow        EscrowContract                                *)
(*   contracts/crowdfunding  PoolContract                                  *)
(*   contracts/p2p           P2PContract                                   *)
(* One behaviour exercises one deployed contract instance (the variable    *)
(* `contract` says which); every invocation is one atomic transaction.     *)
(* The String description of a milestone is never read by any operation    *)
(* and is left out of the Milestone record.                                *)
(***************************************************************************)
EXTENDS Integers, Sequences, FiniteSets, TLC

\* ------------------------------------------------------------------ bounds

\* Width in bits of the signed amount type (i128 in the source, scaled down).
AmtBits == 3
\* Largest number of milestones / time slots kept in one escrow.
MaxConds == 2
\* Largest ledger timestamp.
MaxTime == 1

\* ------------------------------------------------------------- input sets

Parties == {"alice", "bob", "carol"}
NoAddress == "none"
\* Addresses handed to the role arguments of the initializing operations and to
\* the contributor argument; every invocation may be signed by any party.
Clients == {"alice"}
Providers == {"bob"}
Owners == {"alice"}
Contributors == {"bob", "carol"}
Senders == {"alice", "bob"}
Receivers == {"bob", "carol"}

IMin == -(2 ^ (AmtBits - 1))
IMax == (2 ^ (AmtBits - 1)) - 1

\* Amounts handed to the operations: the boundary values and two positive ones.
Amounts == {IMin, -1, 0, 1, 2}
\* Amounts handed to initialize (one positive total) and to add_milestone and
\* add_time_release (a negative one and two positive ones).
TotalAmounts == {IMin, -1, 0, 2}
CondAmounts == {-1, 1, 2}
MilestoneIds == {1, 2}
Times == 0 .. MaxTime

\* refunded is the sum of the amounts that the committed refund invocations
\* have returned so far (what the caller is to transfer back).
VARIABLES contract, timestamp, escrow, pool, p2p, last, refunded

vars == <<contract, timestamp, escrow, pool, p2p, last, refunded>>

\* --------------------------------------------------------------- helpers

\* Address::require_auth: passes iff the address signed the invocation.
\* A failure is a host trap, not one of the contract's Error values.
RequireAuth(invoker, address) == invoker = address

\* Two's-complement wrap of an amount (a build without overflow checks).
Wrap(x) == ((x - IMin) % (2 ^ AmtBits)) + IMin

Overflows(x) == x < IMin \/ x > IMax

\* Result of an invocation: the error (or "Ok"), the storage afterwards, the
\* number of events published and the returned value (0 when there is none).
\* A failing invocation is rolled back by the host: storage is the one before.
Err(st, e) == [res |-> e, st |-> st, ev |-> 0, ret |-> 0]

Ok(st, ev, ret) == [res |-> "Ok", st |-> st, ev |-> ev, ret |-> ret]

\* An arithmetic overflow panics (overflow checks on) and the host rolls back.
Panic(st) == Err(st, "Panic")

\* ---------------------------------------------------------------- escrow

EscrowEmpty ==
    [Initialized |-> FALSE, Client |-> NoAddress, Provider |-> NoAddress,
     TotalAmount |-> 0, ReleasedAmount |-> 0, ReleaseType |-> "None",
     Milestones |-> <<>>, TimeSchedule |-> <<>>, Status |-> "None",
     CreatedAt |-> 0]

ReleaseTypes == {"TimeBased", "MilestoneBased"}
ContractStatuses == {"Active", "Completed", "Disputed"}

\* Mutant of EscrowInitialize: the AlreadyInitialized guard is missing.
EscrowInitialize_NoGuard(st, invoker, client, provider, total_amount, release_type, now) ==
    IF total_amount <= 0 THEN Err(st, "InvalidAmount")
    ELSE IF ~RequireAuth(invoker, client) THEN Err(st, "AuthFailure")
    ELSE Ok([Initialized |-> TRUE, Client |-> client, Provider |-> provider,
             TotalAmount |-> total_amount, ReleasedAmount |-> 0,
             ReleaseType |-> release_type, Milestones |-> <<>>,
             TimeSchedule |-> <<>>, Status |-> "Active", CreatedAt |-> now],
            1, 0)

EscrowInitialize(st, invoker, client, provider, total_amount, release_type, now) ==
    IF st.Initialized THEN Err(st, "AlreadyInitialized")
    ELSE IF total_amount <= 0 THEN Err(st, "InvalidAmount")
    ELSE IF ~RequireAuth(invoker, client) THEN Err(st, "AuthFailure")
    ELSE Ok([Initialized |-> TRUE, Client |-> client, Provider |-> provider,
             TotalAmount |-> total_amount, ReleasedAmount |-> 0,
             ReleaseType |-> release_type, Milestones |-> <<>>,
             TimeSchedule |-> <<>>, Status |-> "Active", CreatedAt |-> now],
            1, 0)

EscrowAddMilestone(st, invoker, id, amount) ==
    IF ~st.Initialized THEN Err(st, "NotInitialized")
    ELSE IF ~RequireAuth(invoker, st.Client) THEN Err(st, "AuthFailure")
    ELSE IF st.ReleaseType # "MilestoneBased" THEN Err(st, "NotMilestoneBased")
    ELSE Ok([st EXCEPT !.Milestones =
                 Append(@, [id |-> id, amount |-> amount,
                            completed |-> FALSE, completed_at |-> 0])],
            0, 0)

EscrowAddTimeRelease(st, invoker, release_date, amount) ==
    IF ~st.Initialized THEN Err(st, "NotInitialized")
    ELSE IF ~RequireAuth(invoker, st.Client) THEN Err(st, "AuthFailure")
    ELSE IF st.ReleaseType # "TimeBased" THEN Err(st, "NotTimeBased")
    ELSE Ok([st EXCEPT !.TimeSchedule =
                 Append(@, [release_date |-> release_date, amount |-> amount,
                            released |-> FALSE])],
            0, 0)

\* Mutant of FindMilestone: completed milestones are passed over, so the next
\* milestone with the same id is found.
RECURSIVE FindMilestone_SkipCompleted(_, _, _)
FindMilestone_SkipCompleted(milestones, milestone_id, from) ==
    IF from > Len(milestones) THEN 0
    ELSE IF milestones[from].id = milestone_id /\ ~milestones[from].completed
         THEN from
    ELSE FindMilestone_SkipCompleted(milestones, milestone_id, from + 1)

\* The loop of complete_milestone: the first index i >= from whose milestone
\* carries milestone_id, or 0 when the loop runs off the end.
RECURSIVE FindMilestone(_, _, _)
FindMilestone(milestones, milestone_id, from) ==
    IF from > Len(milestones) THEN 0
    ELSE IF milestones[from].id = milestone_id THEN from
    ELSE FindMilestone(milestones, milestone_id, from + 1)

\* Mutant of EscrowCompleteMilestone: completing the last not yet completed
\* milestone sets the status to Completed.
EscrowCompleteMilestone_AutoComplete(st, invoker, milestone_id, now, overflow_checks) ==
    IF ~st.Initialized THEN Err(st, "NotInitialized")
    ELSE IF ~RequireAuth(invoker, st.Client) THEN Err(st, "AuthFailure")
    ELSE IF st.Status # "Active" THEN Err(st, "ContractNotActive")
    ELSE LET i == FindMilestone(st.Milestones, milestone_id, 1) IN
         IF i = 0 THEN Err(st, "MilestoneNotFound")
         ELSE IF st.Milestones[i].completed
              THEN Err(st, "MilestoneAlreadyCompleted")
         ELSE LET release_amount == st.Milestones[i].amount
                  released == st.ReleasedAmount + release_amount
                  all_done == \A k \in 1 .. Len(st.Milestones) :
                                 k = i \/ st.Milestones[k].completed
              IN IF Overflows(released) /\ overflow_checks THEN Panic(st)
                 ELSE Ok([st EXCEPT
                            !.Milestones[i].completed = TRUE,
                            !.Milestones[i].completed_at = now,
                            !.ReleasedAmount = Wrap(released),
                            !.Status = IF all_done THEN "Completed" ELSE @],
                         1, 0)

\* Mutant of EscrowCompleteMilestone: the completed flag is not looked at, so
\* a completed milestone is credited again.
EscrowCompleteMilestone_Recredit(st, invoker, milestone_id, now, overflow_checks) ==
    IF ~st.Initialized THEN Err(st, "NotInitialized")
    ELSE IF ~RequireAuth(invoker, st.Client) THEN Err(st, "AuthFailure")
    ELSE IF st.Status # "Active" THEN Err(st, "ContractNotActive")
    ELSE LET i == FindMilestone(st.Milestones, milestone_id, 1) IN
         IF i = 0 THEN Err(st, "MilestoneNotFound")
         ELSE LET release_amount == st.Milestones[i].amount
                  released == st.ReleasedAmount + release_amount
              IN IF Overflows(released) /\ overflow_checks THEN Panic(st)
                 ELSE Ok([st EXCEPT
                            !.Milestones[i].completed = TRUE,
                            !.Milestones[i].completed_at = now,
                            !.ReleasedAmount = Wrap(released)],
                         1, 0)

EscrowCompleteMilestone(st, invoker, milestone_id, now, overflow_checks) ==
    IF ~st.Initialized THEN Err(st, "NotInitialized")
    ELSE IF ~RequireAuth(invoker, st.Client) THEN Err(st, "AuthFailure")
    ELSE IF st.Status # "Active" THEN Err(st, "ContractNotActive")
    ELSE LET i == FindMilestone(st.Milestones, milestone_id, 1) IN
         IF i = 0 THEN Err(st, "MilestoneNotFound")
         ELSE IF st.Milestones[i].completed
              THEN Err(st, "MilestoneAlreadyCompleted")
         ELSE LET release_amount == st.Milestones[i].amount
                  released == st.ReleasedAmount + release_amount
              IN IF Overflows(released) /\ overflow_checks THEN Panic(st)
                 ELSE Ok([st EXCEPT
                            !.Milestones[i].completed = TRUE,
                            !.Milestones[i].completed_at = now,
                            !.ReleasedAmount = Wrap(released)],
                         1, 0)

\* Mutant of ReleaseLoop: a slot is due only strictly after its release date.
RECURSIVE ReleaseLoop_Strict(_, _, _, _, _, _)
ReleaseLoop_Strict(schedule, i, total_released, updated, overflowed, current_time) ==
    IF i > Len(schedule)
    THEN [schedule |-> schedule, total_released |-> total_released,
          updated |-> updated, overflowed |-> overflowed]
    ELSE LET release == schedule[i] IN
         IF ~release.released /\ current_time > release.release_date
         THEN ReleaseLoop_Strict([schedule EXCEPT ![i].released = TRUE], i + 1,
                                 Wrap(total_released + release.amount), TRUE,
                                 overflowed \/ Overflows(total_released + release.amount),
                                 current_time)
         ELSE ReleaseLoop_Strict(schedule, i + 1, total_released, updated,
                                 overflowed, current_time)

\* The loop of release_time_based from index i on: the schedule with every due
\* unreleased slot marked, the accumulated total, whether any slot was marked,
\* and whether an addition overflowed on the way.
RECURSIVE ReleaseLoop(_, _, _, _, _, _)
ReleaseLoop(schedule, i, total_released, updated, overflowed, current_time) ==
    IF i > Len(schedule)
    THEN [schedule |-> schedule, total_released |-> total_released,
          updated |-> updated, overflowed |-> overflowed]
    ELSE LET release == schedule[i] IN
         IF ~release.released /\ current_time >= release.release_date
         THEN ReleaseLoop([schedule EXCEPT ![i].released = TRUE], i + 1,
                          Wrap(total_released + release.amount), TRUE,
                          overflowed \/ Overflows(total_released + release.amount),
                          current_time)
         ELSE ReleaseLoop(schedule, i + 1, total_released, updated, overflowed,
                          current_time)

EscrowReleaseTimeBased(st, now, overflow_checks) ==
    IF ~st.Initialized THEN Err(st, "NotInitialized")
    ELSE IF st.Status # "Active" THEN Err(st, "ContractNotActive")
    ELSE LET r == ReleaseLoop(st.TimeSchedule, 1, 0, FALSE, FALSE, now) IN
         IF r.overflowed /\ overflow_checks THEN Panic(st)
         ELSE IF ~r.updated THEN Err(st, "NoReleasesDue")
         ELSE LET released == st.ReleasedAmount + r.total_released IN
              IF Overflows(released) /\ overflow_checks THEN Panic(st)
              ELSE Ok([st EXCEPT !.ReleasedAmount = Wrap(released),
                                 !.TimeSchedule = r.schedule],
                      1, 0)

EscrowWithdraw(st, invoker, amount, overflow_checks) ==
    IF ~st.Initialized THEN Err(st, "NotInitialized")
    ELSE IF ~RequireAuth(invoker, st.Provider) THEN Err(st, "AuthFailure")
    ELSE IF amount > st.ReleasedAmount THEN Err(st, "InsufficientFunds")
    ELSE LET new_released == st.ReleasedAmount - amount IN
         IF Overflows(new_released) /\ overflow_checks THEN Panic(st)
         ELSE Ok([st EXCEPT !.ReleasedAmount = Wrap(new_released)], 1, 0)

\* Mutant of EscrowDispute: the status is not looked at.
EscrowDispute_AnyStatus(st, invoker, caller) ==
    IF ~st.Initialized THEN Err(st, "NotInitialized")
    ELSE IF ~RequireAuth(invoker, caller) THEN Err(st, "AuthFailure")
    ELSE IF caller # st.Client /\ caller # st.Provider THEN Err(st, "Unauthorized")
    ELSE Ok([st EXCEPT !.Status = "Disputed"], 1, 0)

EscrowDispute(st, invoker, caller) ==
    IF ~st.Initialized THEN Err(st, "NotInitialized")
    ELSE IF ~RequireAuth(invoker, caller) THEN Err(st, "AuthFailure")
    ELSE IF caller # st.Client /\ caller # st.Provider THEN Err(st, "Unauthorized")
    ELSE IF st.Status # "Active" THEN Err(st, "ContractNotActive")
    ELSE Ok([st EXCEPT !.Status = "Disputed"], 1, 0)

\* Mutant of EscrowResolveDispute: the resolution is not looked at.
EscrowResolveDispute_AnyResolution(st, invoker, resolution) ==
    IF ~st.Initialized THEN Err(st, "NotInitialized")
    ELSE IF ~RequireAuth(invoker, st.Client) THEN Err(st, "AuthFailure")
    ELSE IF st.Status # "Disputed" THEN Err(st, "NotDisputed")
    ELSE Ok([st EXCEPT !.Status = resolution], 1, 0)

EscrowResolveDispute(st, invoker, resolution) ==
    IF ~st.Initialized THEN Err(st, "NotInitialized")
    ELSE IF ~RequireAuth(invoker, st.Client) THEN Err(st, "AuthFailure")
    ELSE IF st.Status # "Disputed" THEN Err(st, "NotDisputed")
    ELSE IF resolution # "Active" /\ resolution # "Completed"
         THEN Err(st, "InvalidResolution")
    ELSE Ok([st EXCEPT !.Status = resolution], 1, 0)

\* ----------------------------------------------------------- crowdfunding

\* Map::new: no key.
EmptyMap == [k \in {} |-> 0]

PoolEmpty ==
    [Initialized |-> FALSE, ProjectOwner |-> NoAddress, FundingGoal |-> 0,
     Deadline |-> 0, TotalRaised |-> 0, Contributors |-> EmptyMap,
     Status |-> "None", CreatedAt |-> 0]

PoolStatuses == {"Funding", "Funded", "Failed"}

\* Map<Address, i128>::get with unwrap_or(0).
GetOrZero(contributors, key) ==
    IF key \in DOMAIN contributors THEN contributors[key] ELSE 0

\* Map<Address, i128>::set.
MapSet(contributors, key, value) ==
    [k \in (DOMAIN contributors) \cup {key} |->
        IF k = key THEN value ELSE contributors[k]]

PoolInitialize(st, invoker, project_owner, funding_goal, deadline, now) ==
    IF st.Initialized THEN Err(st, "AlreadyInitialized")
    ELSE IF funding_goal <= 0 THEN Err(st, "InvalidAmount")
    ELSE IF deadline <= now THEN Err(st, "InvalidDeadline")
    ELSE IF ~RequireAuth(invoker, project_owner) THEN Err(st, "AuthFailure")
    ELSE Ok([Initialized |-> TRUE, ProjectOwner |-> project_owner,
             FundingGoal |-> funding_goal, Deadline |-> deadline,
             TotalRaised |-> 0, Contributors |-> EmptyMap, Status |-> "Funding",
             CreatedAt |-> now],
            1, 0)

\* Mutant of PoolContribute: the deadline is not looked at.
PoolContribute_NoDeadline(st, invoker, contributor, amount, now, overflow_checks) ==
    IF ~RequireAuth(invoker, contributor) THEN Err(st, "AuthFailure")
    ELSE IF amount <= 0 THEN Err(st, "InvalidAmount")
    ELSE IF ~st.Initialized THEN Err(st, "NotInitialized")
    ELSE IF st.Status # "Funding" THEN Err(st, "PoolNotFunding")
    ELSE LET contribution == GetOrZero(st.Contributors, contributor) + amount
             total_raised == st.TotalRaised + amount
         IN IF (Overflows(contribution) \/ Overflows(total_raised)) /\ overflow_checks
            THEN Panic(st)
            ELSE Ok([st EXCEPT
                       !.Contributors = MapSet(@, contributor, Wrap(contribution)),
                       !.TotalRaised = Wrap(total_raised)],
                    1, 0)

\* Mutant of PoolContribute: the contribution is recorded before the deadline
\* is looked at, and stays recorded when the call fails.
PoolContribute_WriteFirst(st, invoker, contributor, amount, now, overflow_checks) ==
    IF ~RequireAuth(invoker, contributor) THEN Err(st, "AuthFailure")
    ELSE IF amount <= 0 THEN Err(st, "InvalidAmount")
    ELSE IF ~st.Initialized THEN Err(st, "NotInitialized")
    ELSE IF st.Status # "Funding" THEN Err(st, "PoolNotFunding")
    ELSE LET contribution == GetOrZero(st.Contributors, contributor) + amount
             total_raised == st.TotalRaised + amount
             written == [st EXCEPT
                           !.Contributors = MapSet(@, contributor, Wrap(contribution)),
                           !.TotalRaised = Wrap(total_raised)]
         IN IF (Overflows(contribution) \/ Overflows(total_raised)) /\ overflow_checks
            THEN Panic(st)
            ELSE IF now >= st.Deadline THEN Err(written, "DeadlineNotReached")
            ELSE Ok(written, 1, 0)

PoolContribute(st, invoker, contributor, amount, now, overflow_checks) ==
    IF ~RequireAuth(invoker, contributor) THEN Err(st, "AuthFailure")
    ELSE IF amount <= 0 THEN Err(st, "InvalidAmount")
    ELSE IF ~st.Initialized THEN Err(st, "NotInitialized")
    ELSE IF st.Status # "Funding" THEN Err(st, "PoolNotFunding")
    ELSE IF now >= st.Deadline THEN Err(st, "DeadlineNotReached")
    ELSE LET contribution == GetOrZero(st.Contributors, contributor) + amount
             total_raised == st.TotalRaised + amount
         IN IF (Overflows(contribution) \/ Overflows(total_raised)) /\ overflow_checks
            THEN Panic(st)
            ELSE Ok([st EXCEPT
                       !.Contributors = MapSet(@, contributor, Wrap(contribution)),
                       !.TotalRaised = Wrap(total_raised)],
                    1, 0)

\* Mutant of PoolFinalize: the goal has to be exceeded, not only met.
PoolFinalize_StrictGoal(st, now) ==
    IF ~st.Initialized THEN Err(st, "NotInitialized")
    ELSE IF st.Status # "Funding" THEN Err(st, "PoolNotFunding")
    ELSE IF now < st.Deadline THEN Err(st, "DeadlineNotReached")
    ELSE Ok([st EXCEPT !.Status =
                 IF st.TotalRaised > st.FundingGoal THEN "Funded" ELSE "Failed"],
            1, 0)

PoolFinalize(st, now) ==
    IF ~st.Initialized THEN Err(st, "NotInitialized")
    ELSE IF st.Status # "Funding" THEN Err(st, "PoolNotFunding")
    ELSE IF now < st.Deadline THEN Err(st, "DeadlineNotReached")
    ELSE Ok([st EXCEPT !.Status =
                 IF st.TotalRaised >= st.FundingGoal THEN "Funded" ELSE "Failed"],
            1, 0)

\* Mutant of PoolRefund: the contributor's record is not set to 0.
PoolRefund_KeepRecord(st, invoker, contributor) ==
    IF ~RequireAuth(invoker, contributor) THEN Err(st, "AuthFailure")
    ELSE IF ~st.Initialized THEN Err(st, "NotInitialized")
    ELSE IF st.Status # "Failed" THEN Err(st, "PoolNotFailed")
    ELSE IF contributor \notin DOMAIN st.Contributors THEN Err(st, "NoContribution")
    ELSE IF st.Contributors[contributor] = 0 THEN Err(st, "NoContribution")
    ELSE Ok(st, 1, st.Contributors[contributor])

PoolRefund(st, invoker, contributor) ==
    IF ~RequireAuth(invoker, contributor) THEN Err(st, "AuthFailure")
    ELSE IF ~st.Initialized THEN Err(st, "NotInitialized")
    ELSE IF st.Status # "Failed" THEN Err(st, "PoolNotFailed")
    ELSE IF contributor \notin DOMAIN st.Contributors THEN Err(st, "NoContribution")
    ELSE IF st.Contributors[contributor] = 0 THEN Err(st, "NoContribution")
    ELSE Ok([st EXCEPT !.Contributors = MapSet(@, contributor, 0)],
            1, st.Contributors[contributor])

\* ------------------------------------------------------------------- p2p

P2PEmpty ==
    [Initialized |-> FALSE, Sender |-> NoAddress, Receiver |-> NoAddress,
     Amount |-> 0, UseEscrow |-> FALSE, Status |-> "None", CreatedAt |-> 0]

TransactionStatuses == {"Pending", "Completed", "Cancelled"}

\* send_direct reads and writes no storage: it only publishes an event.
P2PSendDirect(st, invoker, sender, receiver, amount) ==
    IF ~RequireAuth(invoker, sender) THEN Err(st, "AuthFailure")
    ELSE IF amount <= 0 THEN Err(st, "InvalidAmount")
    ELSE Ok(st, 1, 0)

P2PSendWithEscrow(st, invoker, sender, receiver, amount, now) ==
    IF st.Initialized THEN Err(st, "AlreadyInitialized")
    ELSE IF ~RequireAuth(invoker, sender) THEN Err(st, "AuthFailure")
    ELSE IF amount <= 0 THEN Err(st, "InvalidAmount")
    ELSE Ok([Initialized |-> TRUE, Sender |-> sender, Receiver |-> receiver,
             Amount |-> amount, UseEscrow |-> TRUE, Status |-> "Pending",
             CreatedAt |-> now],
            1, 0)

P2PConfirmReceipt(st, invoker) ==
    IF ~st.Initialized THEN Err(st, "NotInitialized")
    ELSE IF ~RequireAuth(invoker, st.Receiver) THEN Err(st, "AuthFailure")
    ELSE IF st.Status # "Pending" THEN Err(st, "TransactionNotPending")
    ELSE Ok([st EXCEPT !.Status = "Completed"], 1, 0)

\* Mutant of P2PCancel: the status is not looked at.
P2PCancel_AnyStatus(st, invoker) ==
    IF ~st.Initialized THEN Err(st, "NotInitialized")
    ELSE IF ~RequireAuth(invoker, st.Sender) THEN Err(st, "AuthFailure")
    ELSE Ok([st EXCEPT !.Status = "Cancelled"], 1, 0)

P2PCancel(st, invoker) ==
    IF ~st.Initialized THEN Err(st, "NotInitialized")
    ELSE IF ~RequireAuth(invoker, st.Sender) THEN Err(st, "AuthFailure")
    ELSE IF st.Status # "Pending" THEN Err(st, "TransactionNotPending")
    ELSE Ok([st EXCEPT !.Status = "Cancelled"], 1, 0)

\* --------------------------------------------------------------- actions

\* The last invocation that committed: the operation, its amount argument (0
\* when it takes none), the number of events it published and the value it
\* returned. A failing invocation is rolled back by the host and leaves no
\* trace: its error goes to the caller only.
Committed(op, amount, r) ==
    IF r.res = "Ok"
    THEN [op |-> op, amount |-> amount, ev |-> r.ev, ret |-> r.ret]
    ELSE last

NoInvocation == [op |-> "none", amount |-> 0, ev |-> 0, ret |-> 0]

Init ==
    /\ contract \in {"escrow", "pool", "p2p"}
    /\ timestamp = 0
    /\ escrow = EscrowEmpty
    /\ pool = PoolEmpty
    /\ p2p = P2PEmpty
    /\ last = NoInvocation
    /\ refunded = 0

InitEscrow == Init /\ contract = "escrow"

InitPool == Init /\ contract = "pool"

InitP2P == Init /\ contract = "p2p"

\* The ledger closes and its timestamp advances.
Tick ==
    /\ timestamp < MaxTime
    /\ timestamp' = timestamp + 1
    /\ UNCHANGED <<contract, escrow, pool, p2p, last, refunded>>

initialize ==
    /\ contract = "escrow"
    /\ \E invoker \in Parties, client \in Clients, provider \in Providers,
          total_amount \in TotalAmounts, release_type \in ReleaseTypes :
         LET r == EscrowInitialize(escrow, invoker, client, provider,
                                   total_amount, release_type, timestamp)
         IN /\ escrow' = r.st
            /\ last' = Committed("initialize", total_amount, r)
    /\ UNCHANGED <<contract, timestamp, pool, p2p, refunded>>

add_milestone ==
    /\ contract = "escrow"
    /\ Len(escrow.Milestones) < MaxConds
    /\ \E invoker \in Parties, id \in MilestoneIds, amount \in CondAmounts :
         LET r == EscrowAddMilestone(escrow, invoker, id, amount)
         IN /\ escrow' = r.st
            /\ last' = Committed("add_milestone", amount, r)
    /\ UNCHANGED <<contract, timestamp, pool, p2p, refunded>>

add_time_release ==
    /\ contract = "escrow"
    /\ Len(escrow.TimeSchedule) < MaxConds
    /\ \E invoker \in Parties, release_date \in Times, amount \in CondAmounts :
         LET r == EscrowAddTimeRelease(escrow, invoker, release_date, amount)
         IN /\ escrow' = r.st
            /\ last' = Committed("add_time_release", amount, r)
    /\ UNCHANGED <<contract, timestamp, pool, p2p, refunded>>

complete_milestone ==
    /\ contract = "escrow"
    /\ \E invoker \in Parties, milestone_id \in MilestoneIds,
          overflow_checks \in BOOLEAN :
         LET r == EscrowCompleteMilestone(escrow, invoker, milestone_id,
                                          timestamp, overflow_checks)
         IN /\ escrow' = r.st
            /\ last' = Committed("complete_milestone", 0, r)
    /\ UNCHANGED <<contract, timestamp, pool, p2p, refunded>>

release_time_based ==
    /\ contract = "escrow"
    /\ \E overflow_checks \in BOOLEAN :
         LET r == EscrowReleaseTimeBased(escrow, timestamp, overflow_checks)
         IN /\ escrow' = r.st
            /\ last' = Committed("release_time_based", 0, r)
    /\ UNCHANGED <<contract, timestamp, pool, p2p, refunded>>

withdraw ==
    /\ contract = "escrow"
    /\ \E invoker \in Parties, amount \in Amounts, overflow_checks \in BOOLEAN :
         LET r == EscrowWithdraw(escrow, invoker, amount, overflow_checks)
         IN /\ escrow' = r.st
            /\ last' = Committed("withdraw", amount, r)
    /\ UNCHANGED <<contract, timestamp, pool, p2p, refunded>>

dispute ==
    /\ contract = "escrow"
    /\ \E invoker \in Parties, caller \in Parties :
         LET r == EscrowDispute(escrow, invoker, caller)
         IN /\ escrow' = r.st
            /\ last' = Committed("dispute", 0, r)
    /\ UNCHANGED <<contract, timestamp, pool, p2p, refunded>>

resolve_dispute ==
    /\ contract = "escrow"
    /\ \E invoker \in Parties, resolution \in ContractStatuses :
         LET r == EscrowResolveDispute(escrow, invoker, resolution)
         IN /\ escrow' = r.st
            /\ last' = Committed("resolve_dispute", 0, r)
    /\ UNCHANGED <<contract, timestamp, pool, p2p, refunded>>

pool_initialize ==
    /\ contract = "pool"
    /\ \E invoker \in Parties, project_owner \in Owners,
          funding_goal \in Amounts, deadline \in Times :
         LET r == PoolInitialize(pool, invoker, project_owner, funding_goal,
                                 deadline, timestamp)
         IN /\ pool' = r.st
            /\ last' = Committed("pool_initialize", funding_goal, r)
    /\ UNCHANGED <<contract, timestamp, escrow, p2p, refunded>>

contribute ==
    /\ contract = "pool"
    /\ \E invoker \in Parties, contributor \in Contributors, amount \in Amounts,
          overflow_checks \in BOOLEAN :
         LET r == PoolContribute(pool, invoker, contributor, amount, timestamp,
                                 overflow_checks)
         IN /\ pool' = r.st
            /\ last' = Committed("contribute", amount, r)
    /\ UNCHANGED <<contract, timestamp, escrow, p2p, refunded>>

finalize ==
    /\ contract = "pool"
    /\ LET r == PoolFinalize(pool, timestamp)
       IN /\ pool' = r.st
          /\ last' = Committed("finalize", 0, r)
    /\ UNCHANGED <<contract, timestamp, escrow, p2p, refunded>>

refund ==
    /\ contract = "pool"
    /\ \E invoker \in Parties, contributor \in Contributors :
         LET r == PoolRefund(pool, invoker, contributor)
         IN /\ pool' = r.st
            /\ last' = Committed("refund", 0, r)
            /\ refunded' = IF r.res = "Ok" THEN refunded + r.ret ELSE refunded
    /\ UNCHANGED <<contract, timestamp, escrow, p2p>>

send_direct ==
    /\ contract = "p2p"
    /\ \E invoker \in Parties, sender \in Senders, receiver \in Receivers,
          amount \in Amounts :
         LET r == P2PSendDirect(p2p, invoker, sender, receiver, amount)
         IN /\ p2p' = r.st
            /\ last' = Committed("send_direct", amount, r)
    /\ UNCHANGED <<contract, timestamp, escrow, pool, refunded>>

send_with_escrow ==
    /\ contract = "p2p"
    /\ \E invoker \in Parties, sender \in Senders, receiver \in Receivers,
          amount \in Amounts :
         LET r == P2PSendWithEscrow(p2p, invoker, sender, receiver, amount,
                                    timestamp)
         IN /\ p2p' = r.st
            /\ last' = Committed("send_with_escrow", amount, r)
    /\ UNCHANGED <<contract, timestamp, escrow, pool, refunded>>

confirm_receipt ==
    /\ contract = "p2p"
    /\ \E invoker \in Parties :
         LET r == P2PConfirmReceipt(p2p, invoker)
         IN /\ p2p' = r.st
            /\ last' = Committed("confirm_receipt", 0, r)
    /\ UNCHANGED <<contract, timestamp, escrow, pool, refunded>>

cancel ==
    /\ contract = "p2p"
    /\ \E invoker \in Parties :
         LET r == P2PCancel(p2p, invoker)
         IN /\ p2p' = r.st
            /\ last' = Committed("cancel", 0, r)
    /\ UNCHANGED <<contract, timestamp, escrow, pool, refunded>>

\* The operations that take an amount.
AmountOps ==
    {"initialize", "add_milestone", "add_time_release", "withdraw",
     "pool_initialize", "contribute", "send_direct", "send_with_escrow"}

NextEscrow ==
    \/ Tick
    \/ initialize \/ add_milestone \/ add_time_release \/ complete_milestone
    \/ release_time_based \/ withdraw \/ dispute \/ resolve_dispute

NextPool == Tick \/ pool_initialize \/ contribute \/ finalize \/ refund

NextP2P == Tick \/ send_direct \/ send_with_escrow \/ confirm_receipt \/ cancel

Next == NextEscrow \/ NextPool \/ NextP2P

\* Any one of the three contracts.
Spec == Init /\ [][Next]_vars

\* One escrow instance.
SpecEscrow == InitEscrow /\ [][NextEscrow]_vars

\* One escrow instance on which no invocation with an amount <= 0 commits:
\* the runs whose inputs are all amounts the contracts are meant to accept.
PositiveAmounts == last.op \in AmountOps => last.amount > 0

NextEscrowPositive ==
    \/ Tick
    \/ initialize /\ PositiveAmounts'
    \/ add_milestone /\ PositiveAmounts'
    \/ add_time_release /\ PositiveAmounts'
    \/ complete_milestone
    \/ release_time_based
    \/ withdraw /\ PositiveAmounts'
    \/ dispute
    \/ resolve_dispute

SpecEscrowPositive == InitEscrow /\ [][NextEscrowPositive]_vars

\* One crowdfunding pool.
SpecPool == InitPool /\ [][NextPool]_vars

\* One peer-to-peer transfer.
SpecP2P == InitP2P /\ [][NextP2P]_vars

\* ---------------------------------------------------------------- claims

Indices(list) == 1 .. Len(list)

\* C1: no invocation that takes an amount commits with an amount <= 0 (it
\* fails and the storage stays as it was), and no milestone, time slot or
\* contribution record holds an amount <= 0 that an invocation handed in (a
\* record is 0 only after a refund, which is no input amount).
C1_NonPositiveAmountRejected ==
    /\ last.op \in AmountOps => last.amount > 0
    /\ \A i \in Indices(escrow.Milestones) : escrow.Milestones[i].amount > 0
    /\ \A i \in Indices(escrow.TimeSchedule) : escrow.TimeSchedule[i].amount > 0
    /\ \A c \in DOMAIN pool.Contributors : pool.Contributors[c] >= 0

\* Sum of the amounts of the milestones marked completed and of the time
\* slots marked released.
RECURSIVE CreditedMilestones(_)
CreditedMilestones(milestones) ==
    IF milestones = <<>> THEN 0
    ELSE (IF Head(milestones).completed THEN Head(milestones).amount ELSE 0)
         + CreditedMilestones(Tail(milestones))

RECURSIVE CreditedSlots(_)
CreditedSlots(schedule) ==
    IF schedule = <<>> THEN 0
    ELSE (IF Head(schedule).released THEN Head(schedule).amount ELSE 0)
         + CreditedSlots(Tail(schedule))

Credited(st) == CreditedMilestones(st.Milestones) + CreditedSlots(st.TimeSchedule)

\* C2: every step of the escrow that no withdraw committed leaves the released
\* amount at least as large as it was and changes it by exactly what the step
\* adds to the sum of the amounts of the completed milestones and released
\* time slots (both are 0 after initialize, so in a run without a withdraw
\* they are equal in every state).
C2_MonotonicRelease ==
    [][(escrow' # escrow /\ last'.op # "withdraw")
         => /\ escrow'.ReleasedAmount >= escrow.ReleasedAmount
            /\ escrow'.ReleasedAmount - escrow.ReleasedAmount
                 = Credited(escrow') - Credited(escrow)]_vars

\* C3: once the status is terminal (escrow Completed, pool Failed, transfer
\* Completed or Cancelled) no later invocation changes the stored state.
C3_TerminalFrozen ==
    [][/\ escrow.Status = "Completed" => escrow' = escrow
       /\ pool.Status = "Failed" => pool' = pool
       /\ p2p.Status \in {"Completed", "Cancelled"} => p2p' = p2p]_vars

\* C4: an invocation not signed by the role the operation requires fails with
\* the authorization failure, whatever the state and the other arguments (the
\* role of an initializing operation is its client / owner / sender argument;
\* the role of the others is the stored one, on an initialized instance).
C4_AuthorizationFirst ==
    /\ \A invoker \in Parties, client \in Parties, provider \in Parties,
          total_amount \in Amounts, release_type \in ReleaseTypes :
         invoker # client =>
           EscrowInitialize(escrow, invoker, client, provider, total_amount,
                            release_type, timestamp).res = "AuthFailure"
    /\ \A invoker \in Parties, project_owner \in Parties,
          funding_goal \in Amounts, deadline \in Times :
         invoker # project_owner =>
           PoolInitialize(pool, invoker, project_owner, funding_goal, deadline,
                          timestamp).res = "AuthFailure"
    /\ \A invoker \in Parties, sender \in Parties, receiver \in Parties,
          amount \in Amounts :
         invoker # sender =>
           P2PSendWithEscrow(p2p, invoker, sender, receiver, amount,
                             timestamp).res = "AuthFailure"
    /\ escrow.Initialized =>
         \A invoker \in Parties :
           /\ invoker # escrow.Client =>
                /\ \A id \in MilestoneIds, amount \in Amounts :
                     EscrowAddMilestone(escrow, invoker, id, amount).res
                       = "AuthFailure"
                /\ \A release_date \in Times, amount \in Amounts :
                     EscrowAddTimeRelease(escrow, invoker, release_date,
                                          amount).res = "AuthFailure"
                /\ \A id \in MilestoneIds, oc \in BOOLEAN :
                     EscrowCompleteMilestone(escrow, invoker, id, timestamp,
                                             oc).res = "AuthFailure"
                /\ \A resolution \in ContractStatuses :
                     EscrowResolveDispute(escrow, invoker, resolution).res
                       = "AuthFailure"
           /\ invoker # escrow.Provider =>
                \A amount \in Amounts, oc \in BOOLEAN :
                  EscrowWithdraw(escrow, invoker, amount, oc).res = "AuthFailure"
           /\ invoker \notin {escrow.Client, escrow.Provider} =>
                EscrowDispute(escrow, invoker, invoker).res
                  \in {"AuthFailure", "Unauthorized"}
    /\ p2p.Initialized =>
         \A invoker \in Parties :
           /\ invoker # p2p.Receiver =>
                P2PConfirmReceipt(p2p, invoker).res = "AuthFailure"
           /\ invoker # p2p.Sender => P2PCancel(p2p, invoker).res = "AuthFailure"

\* C5, in one state: on an initialized pool a refund signed by its contributor
\* fails with PoolNotFailed while the status is not Failed; once Failed it
\* fails with NoContribution for a party with no record or a record of 0, and
\* for a record C > 0 it succeeds, returns exactly C, sets that record to 0
\* and changes nothing else, after which the same refund fails with
\* NoContribution.
C5_RefundState ==
    pool.Initialized =>
      \A c \in Parties :
        LET r == PoolRefund(pool, c, c) IN
        /\ pool.Status # "Failed" => r.res = "PoolNotFailed" /\ r.st = pool
        /\ (pool.Status = "Failed" /\ GetOrZero(pool.Contributors, c) = 0)
             => r.res = "NoContribution" /\ r.st = pool
        /\ (pool.Status = "Failed" /\ GetOrZero(pool.Contributors, c) > 0)
             => /\ r.res = "Ok"
                /\ r.ret = pool.Contributors[c]
                /\ r.st = [pool EXCEPT !.Contributors[c] = 0]
                /\ PoolRefund(r.st, c, c).res = "NoContribution"

\* C5, over a step: a Failed pool stays Failed and a record that is absent or 0
\* stays so, so every later refund of that contributor fails as well.
C5_RefundStep ==
    pool.Status = "Failed" =>
      /\ pool'.Status = "Failed"
      /\ \A c \in Parties :
           GetOrZero(pool.Contributors, c) = 0
             => GetOrZero(pool'.Contributors, c) = 0

\* C5: refund exactness (C5_RefundState in every state, C5_RefundStep over
\* every step).
C5_RefundExactness == []C5_RefundState /\ [][C5_RefundStep]_vars

\* A refund of a positive contribution has just committed on a Failed pool.
C5_Witness ==
    /\ last.op = "refund"
    /\ last.ret > 0
    /\ pool.Status = "Failed"
    /\ \E c \in DOMAIN pool.Contributors : pool.Contributors[c] = 0

\* C6: on an initialized pool, at any ledger time, finalize fails with
\* PoolNotFunding unless the status is Funding; with status Funding it fails
\* with DeadlineNotReached strictly before the deadline (the pool stays as it
\* is), and from the deadline on it succeeds and changes only the status, to
\* Funded exactly when total raised >= funding goal and to Failed otherwise.
C6_FinalizeGating ==
    pool.Initialized =>
      \A now \in Times :
        LET r == PoolFinalize(pool, now) IN
        /\ pool.Status # "Funding" => r.res = "PoolNotFunding" /\ r.st = pool
        /\ (pool.Status = "Funding" /\ now < pool.Deadline)
             => r.res = "DeadlineNotReached" /\ r.st = pool
        /\ (pool.Status = "Funding" /\ now >= pool.Deadline)
             => /\ r.res = "Ok"
                /\ pool.TotalRaised >= pool.FundingGoal
                     => r.st = [pool EXCEPT !.Status = "Funded"]
                /\ pool.TotalRaised < pool.FundingGoal
                     => r.st = [pool EXCEPT !.Status = "Failed"]

\* finalize has just committed on a pool that raised exactly its goal.
C6_Witness ==
    /\ last.op = "finalize"
    /\ pool.Status = "Funded"
    /\ pool.TotalRaised = pool.FundingGoal
    /\ timestamp >= pool.Deadline

\* The first milestone carrying id exists and is not completed.
Completable(st, id) ==
    /\ FindMilestone(st.Milestones, id, 1) # 0
    /\ ~st.Milestones[FindMilestone(st.Milestones, id, 1)].completed

\* The first of the two calls of C7, with result r1 for milestone m: it
\* succeeds or, when amended, succeeds unless adding the milestone's amount to
\* the released amount overflows the amount type in a build with overflow
\* checks, where it panics and the state stays as it was.
C7_First(amended, r1, m, oc) ==
    IF amended /\ oc /\ Overflows(escrow.ReleasedAmount + m.amount)
    THEN r1.res = "Panic" /\ r1.st = escrow
    ELSE r1.res = "Ok"

\* What C7 says of two complete_milestone calls in a row, by the client, on an
\* Active escrow.
C7_TwoCalls(amended) ==
    (escrow.Initialized /\ escrow.Status = "Active") =>
      \A id \in MilestoneIds \cup {3}, oc \in BOOLEAN :
        LET r1 == EscrowCompleteMilestone(escrow, escrow.Client, id,
                                          timestamp, oc)
            i == FindMilestone(escrow.Milestones, id, 1)
        IN /\ i = 0 => r1.res = "MilestoneNotFound" /\ r1.st = escrow
           /\ Completable(escrow, id) =>
                /\ C7_First(amended, r1, escrow.Milestones[i], oc)
                /\ r1.res = "Ok" =>
                     \A now \in Times, oc2 \in BOOLEAN :
                       LET r2 == EscrowCompleteMilestone(r1.st, escrow.Client,
                                                         id, now, oc2)
                       IN /\ r2.res = "MilestoneAlreadyCompleted"
                          /\ r2.st = r1.st

\* C7 as stated: the first of two complete_milestone calls with the same
\* existing, not yet completed id succeeds, the second fails with
\* MilestoneAlreadyCompleted and leaves the whole stored state as the first
\* left it; an id no milestone carries gives MilestoneNotFound.
C7_IdempotentCompletion == C7_TwoCalls(FALSE)

\* C7 as amended: the same, the first call succeeding unless the released
\* amount would overflow (then it panics and changes nothing).
C7_IdempotentCompletionAmended == C7_TwoCalls(TRUE)

\* complete_milestone has just committed on an Active escrow that holds a
\* completed and a not yet completed milestone.
C7_Witness ==
    /\ last.op = "complete_milestone"
    /\ escrow.Status = "Active"
    /\ \E i \in Indices(escrow.Milestones) : escrow.Milestones[i].completed
    /\ \E i \in Indices(escrow.Milestones) : ~escrow.Milestones[i].completed

\* C8: on an instance that carries the initialized flag, the initializing
\* operation fails with AlreadyInitialized for every signer and all arguments
\* and leaves every stored value as it was.
C8_InitializeOnce ==
    /\ escrow.Initialized =>
         \A invoker \in Parties, client \in Parties, provider \in Parties,
            total_amount \in Amounts, release_type \in ReleaseTypes,
            now \in Times :
           LET r == EscrowInitialize(escrow, invoker, client, provider,
                                     total_amount, release_type, now)
           IN r.res = "AlreadyInitialized" /\ r.st = escrow
    /\ pool.Initialized =>
         \A invoker \in Parties, project_owner \in Parties,
            funding_goal \in Amounts, deadline \in 0 .. MaxTime + 1,
            now \in Times :
           LET r == PoolInitialize(pool, invoker, project_owner, funding_goal,
                                   deadline, now)
           IN r.res = "AlreadyInitialized" /\ r.st = pool
    /\ p2p.Initialized =>
         \A invoker \in Parties, sender \in Parties, receiver \in Parties,
            amount \in Amounts, now \in Times :
           LET r == P2PSendWithEscrow(p2p, invoker, sender, receiver, amount,
                                      now)
           IN r.res = "AlreadyInitialized" /\ r.st = p2p

\* An initialized escrow that has moved on from its initial state: a second
\* initialize that went through would reset its status and its milestones.
C8_Witness ==
    /\ escrow.Initialized
    /\ escrow.Status = "Disputed"
    /\ Len(escrow.Milestones) > 0
    /\ escrow.ReleasedAmount > 0

\* C9: withdraw(amount) signed by the provider fails with InsufficientFunds
\* and changes nothing when amount exceeds the released balance; otherwise it
\* succeeds, lowers the released balance by exactly amount and changes
\* nothing else.
C9_WithdrawDebit ==
    escrow.Initialized =>
      \A amount \in Amounts, oc \in BOOLEAN :
        LET r == EscrowWithdraw(escrow, escrow.Provider, amount, oc) IN
        IF amount > escrow.ReleasedAmount
        THEN r.res = "InsufficientFunds" /\ r.st = escrow
        ELSE /\ r.res = "Ok"
             /\ r.st = [escrow EXCEPT !.ReleasedAmount = @ - amount]

\* No milestone and no time slot of st changes its completed / released flag
\* in st2 (the lists only grow).
FlagsKept(st, st2) ==
    /\ \A i \in Indices(st.Milestones) :
         st2.Milestones[i].completed = st.Milestones[i].completed
    /\ \A i \in Indices(st.TimeSchedule) :
         st2.TimeSchedule[i].released = st.TimeSchedule[i].released

\* C10: dispute succeeds only for a caller that is the client or the provider
\* and only on an Active escrow, and then sets the status to Disputed; while
\* the status is Disputed complete_milestone (by the client) and
\* release_time_based fail with ContractNotActive, and over a step that starts
\* and ends Disputed no completed/released flag changes and the released
\* amount does not increase.
C10_DisputeFreezes ==
    [][/\ escrow.Initialized =>
            \A invoker \in Parties, caller \in Parties :
              LET r == EscrowDispute(escrow, invoker, caller) IN
              r.res = "Ok" =>
                /\ caller \in {escrow.Client, escrow.Provider}
                /\ escrow.Status = "Active"
                /\ r.st = [escrow EXCEPT !.Status = "Disputed"]
       /\ escrow.Status = "Disputed" =>
            \A id \in MilestoneIds, oc \in BOOLEAN :
              /\ EscrowCompleteMilestone(escrow, escrow.Client, id, timestamp,
                                         oc).res = "ContractNotActive"
              /\ EscrowReleaseTimeBased(escrow, timestamp, oc).res
                   = "ContractNotActive"
       /\ (escrow.Status = "Disputed" /\ escrow'.Status = "Disputed") =>
            /\ FlagsKept(escrow, escrow')
            /\ escrow'.ReleasedAmount <= escrow.ReleasedAmount]_vars

\* C11: on an initialized escrow, resolve_dispute succeeds for no signer
\* unless the status is Disputed and the resolution is Active or Completed,
\* and a success changes the status to that resolution and nothing else;
\* signed by the client it fails with NotDisputed when the status is not
\* Disputed (whatever the resolution), with InvalidResolution when the status
\* is Disputed and the resolution is Disputed, and succeeds otherwise; every
\* failure leaves the stored state as it was.
C11_ResolveDispute ==
    escrow.Initialized =>
      \A invoker \in Parties, resolution \in ContractStatuses :
        LET r == EscrowResolveDispute(escrow, invoker, resolution) IN
        /\ r.res = "Ok" =>
             /\ escrow.Status = "Disputed"
             /\ resolution \in {"Active", "Completed"}
             /\ r.st = [escrow EXCEPT !.Status = resolution]
        /\ r.res # "Ok" => r.st = escrow
        /\ invoker = escrow.Client =>
             /\ escrow.Status # "Disputed" => r.res = "NotDisputed"
             /\ (escrow.Status = "Disputed" /\ resolution = "Disputed")
                  => r.res = "InvalidResolution"
             /\ (escrow.Status = "Disputed" /\ resolution # "Disputed")
                  => r.res = "Ok"

\* resolve_dispute has just committed and the escrow is Completed.
C11_Witness ==
    /\ last.op = "resolve_dispute"
    /\ escrow.Status = "Completed"

\* C12, in one state: on an initialized transfer confirm_receipt and cancel
\* succeed for no signer unless the status is Pending, and a success changes
\* the status to Completed and Cancelled respectively and nothing else; signed
\* by the receiver / the sender they succeed when the status is Pending and
\* fail with TransactionNotPending otherwise.
C12_PendingOnly ==
    p2p.Initialized =>
      \A invoker \in Parties :
        LET rc == P2PConfirmReceipt(p2p, invoker)
            rx == P2PCancel(p2p, invoker)
        IN /\ rc.res = "Ok" =>
                /\ p2p.Status = "Pending"
                /\ rc.st = [p2p EXCEPT !.Status = "Completed"]
           /\ rx.res = "Ok" =>
                /\ p2p.Status = "Pending"
                /\ rx.st = [p2p EXCEPT !.Status = "Cancelled"]
           /\ rc.res # "Ok" => rc.st = p2p
           /\ rx.res # "Ok" => rx.st = p2p
           /\ invoker = p2p.Receiver =>
                rc.res = IF p2p.Status = "Pending" THEN "Ok"
                         ELSE "TransactionNotPending"
           /\ invoker = p2p.Sender =>
                rx.res = IF p2p.Status = "Pending" THEN "Ok"
                         ELSE "TransactionNotPending"

\* C12, over a step: a status that is Completed or Cancelled stays what it is
\* (so the one confirm_receipt or cancel that left Pending is the only one that
\* ever succeeds), and a step that changes the status of an initialized
\* transfer leaves Pending through a committed confirm_receipt or cancel.
C12_OneOutcomeStep ==
    /\ p2p.Status \in {"Completed", "Cancelled"} => p2p' = p2p
    /\ (p2p.Initialized /\ p2p'.Status # p2p.Status) =>
         /\ p2p.Status = "Pending"
         /\ \/ last'.op = "confirm_receipt" /\ p2p'.Status = "Completed"
            \/ last'.op = "cancel" /\ p2p'.Status = "Cancelled"

\* C12: confirm_receipt and cancel succeed only from Pending and exclude each
\* other (C12_PendingOnly in every state, C12_OneOutcomeStep over every step).
C12_ConfirmOrCancel == []C12_PendingOnly /\ [][C12_OneOutcomeStep]_vars

\* cancel has just committed: the transfer is Cancelled.
C12_Witness ==
    /\ last.op = "cancel"
    /\ p2p.Status = "Cancelled"

\* C13: on an initialized escrow add_milestone and add_time_release succeed
\* only when signed by the client and only while the status is Active (from
\* Disputed or Completed they fail and leave the lists as they were), and a
\* success appends exactly one not completed / not released condition at the
\* end of its list and changes nothing else.
C13_AppendOnlyWhileActive ==
    escrow.Initialized =>
      \A invoker \in Parties, amount \in CondAmounts :
        /\ \A id \in MilestoneIds :
             LET r == EscrowAddMilestone(escrow, invoker, id, amount) IN
             /\ r.res = "Ok" =>
                  /\ invoker = escrow.Client
                  /\ escrow.Status = "Active"
                  /\ r.st = [escrow EXCEPT !.Milestones =
                               Append(@, [id |-> id, amount |-> amount,
                                          completed |-> FALSE,
                                          completed_at |-> 0])]
             /\ r.res # "Ok" => r.st = escrow
        /\ \A release_date \in Times :
             LET r == EscrowAddTimeRelease(escrow, invoker, release_date,
                                           amount) IN
             /\ r.res = "Ok" =>
                  /\ invoker = escrow.Client
                  /\ escrow.Status = "Active"
                  /\ r.st = [escrow EXCEPT !.TimeSchedule =
                               Append(@, [release_date |-> release_date,
                                          amount |-> amount,
                                          released |-> FALSE])]
             /\ r.res # "Ok" => r.st = escrow

\* The time slots of st that are unreleased and due at time t.
DueSlots(st, t) ==
    {i \in Indices(st.TimeSchedule) :
       ~st.TimeSchedule[i].released /\ st.TimeSchedule[i].release_date <= t}

\* Sum of the amounts of the slots of schedule at the indices in S.
RECURSIVE SlotSum(_, _)
SlotSum(schedule, S) ==
    IF S = {} THEN 0
    ELSE LET i == CHOOSE j \in S : TRUE
         IN schedule[i].amount + SlotSum(schedule, S \ {i})

\* The schedule with exactly the slots at the indices in S marked released.
MarkReleased(schedule, S) ==
    [i \in Indices(schedule) |->
       IF i \in S THEN [schedule[i] EXCEPT !.released = TRUE] ELSE schedule[i]]

\* What C14 says of one release_time_based call on an Active escrow at the
\* ledger time of the state; when amended, a sum that overflows the amount
\* type makes the call panic and change nothing in a build with overflow
\* checks, and is stored wrapped in a build without.
C14_OneCall(amended) ==
    (escrow.Initialized /\ escrow.Status = "Active") =>
      \A oc \in BOOLEAN :
        LET r == EscrowReleaseTimeBased(escrow, timestamp, oc)
            due == DueSlots(escrow, timestamp)
            sum == SlotSum(escrow.TimeSchedule, due)
            overflow == \/ Overflows(sum)
                        \/ Overflows(escrow.ReleasedAmount + sum)
        IN /\ due = {} => r.res = "NoReleasesDue" /\ r.st = escrow
           /\ due # {} =>
                IF amended /\ overflow
                THEN IF oc THEN r.res = "Panic" /\ r.st = escrow
                     ELSE /\ r.res = "Ok"
                          /\ r.st = [escrow EXCEPT
                               !.TimeSchedule = MarkReleased(@, due),
                               !.ReleasedAmount = Wrap(@ + sum)]
                ELSE /\ r.res = "Ok"
                     /\ r.st = [escrow EXCEPT
                          !.TimeSchedule = MarkReleased(@, due),
                          !.ReleasedAmount = @ + sum]

C14_OneCallStated == C14_OneCall(FALSE)

C14_OneCallAmended == C14_OneCall(TRUE)

\* Over a step: a slot once released stays as it is, and a committed
\* release_time_based marks only slots that were unreleased and due, so no
\* slot is credited twice.
C14_OnceStep ==
    /\ \A i \in Indices(escrow.TimeSchedule) :
         escrow.TimeSchedule[i].released
           => /\ i \in Indices(escrow'.TimeSchedule)
              /\ escrow'.TimeSchedule[i] = escrow.TimeSchedule[i]
    /\ (escrow.Initialized /\ escrow'.TimeSchedule # escrow.TimeSchedule
          /\ Len(escrow'.TimeSchedule) = Len(escrow.TimeSchedule)) =>
         /\ last'.op = "release_time_based"
         /\ escrow'.TimeSchedule
              = MarkReleased(escrow.TimeSchedule, DueSlots(escrow, timestamp))

\* C14 as stated: release_time_based on an Active escrow at time t marks
\* every unreleased slot with release_date <= t and no other, adds exactly
\* the sum of their amounts to the released amount, fails with NoReleasesDue
\* and changes nothing when no slot is due, and credits no slot twice.
C14_TimeRelease == []C14_OneCallStated /\ [][C14_OnceStep]_vars

\* C14 as amended: the same, unless the sum overflows the amount type.
C14_TimeReleaseAmended == []C14_OneCallAmended /\ [][C14_OnceStep]_vars

\* release_time_based has just committed: a due slot is released and a slot
\* that is not yet due stays unreleased.
C14_Witness ==
    /\ last.op = "release_time_based"
    /\ \E i \in Indices(escrow.TimeSchedule) : escrow.TimeSchedule[i].released
    /\ \E i \in Indices(escrow.TimeSchedule) :
         /\ ~escrow.TimeSchedule[i].released
         /\ escrow.TimeSchedule[i].release_date > timestamp

\* A result that is no success leaves the storage st as it was.
Kept(r, st) == r.res # "Ok" => r.st = st

\* C15: in every reachable state of each contract, every invocation that
\* fails (an error value, an authorization failure or a panic), whoever signs
\* it and whatever its arguments are, leaves the whole stored state of the
\* instance exactly as it was.
C15_FailureLeavesState ==
    /\ contract = "escrow" =>
         \A invoker \in Parties, oc \in BOOLEAN :
           /\ \A client \in Clients, provider \in Providers,
                 total_amount \in TotalAmounts, release_type \in ReleaseTypes :
                Kept(EscrowInitialize(escrow, invoker, client, provider,
                                      total_amount, release_type, timestamp),
                     escrow)
           /\ \A id \in MilestoneIds \cup {3}, amount \in Amounts :
                /\ Kept(EscrowAddMilestone(escrow, invoker, id, amount), escrow)
                /\ Kept(EscrowCompleteMilestone(escrow, invoker, id, timestamp,
                                                oc), escrow)
           /\ \A release_date \in Times, amount \in Amounts :
                Kept(EscrowAddTimeRelease(escrow, invoker, release_date, amount),
                     escrow)
           /\ Kept(EscrowReleaseTimeBased(escrow, timestamp, oc), escrow)
           /\ \A amount \in Amounts :
                Kept(EscrowWithdraw(escrow, invoker, amount, oc), escrow)
           /\ \A caller \in Parties :
                Kept(EscrowDispute(escrow, invoker, caller), escrow)
           /\ \A resolution \in ContractStatuses :
                Kept(EscrowResolveDispute(escrow, invoker, resolution), escrow)
    /\ contract = "pool" =>
         \A invoker \in Parties, oc \in BOOLEAN :
           /\ \A project_owner \in Owners, funding_goal \in Amounts,
                 deadline \in 0 .. MaxTime + 1 :
                Kept(PoolInitialize(pool, invoker, project_owner, funding_goal,
                                    deadline, timestamp), pool)
           /\ \A contributor \in Parties, amount \in Amounts :
                Kept(PoolContribute(pool, invoker, contributor, amount,
                                    timestamp, oc), pool)
           /\ Kept(PoolFinalize(pool, timestamp), pool)
           /\ \A contributor \in Parties :
                Kept(PoolRefund(pool, invoker, contributor), pool)
    /\ contract = "p2p" =>
         \A invoker \in Parties, sender \in Senders, receiver \in Receivers,
            amount \in Amounts :
           /\ Kept(P2PSendDirect(p2p, invoker, sender, receiver, amount), p2p)
           /\ Kept(P2PSendWithEscrow(p2p, invoker, sender, receiver, amount,
                                     timestamp), p2p)
           /\ Kept(P2PConfirmReceipt(p2p, invoker), p2p)
           /\ Kept(P2PCancel(p2p, invoker), p2p)

\* A pool that holds a contribution and has reached its deadline while still
\* Funding: a further contribute fails after its amount and status checks
\* have passed.
C15_Witness ==
    /\ pool.Initialized
    /\ pool.Status = "Funding"
    /\ pool.TotalRaised > 0
    /\ timestamp >= pool.Deadline
    /\ PoolContribute(pool, "bob", "bob", 1, timestamp, TRUE).res
         = "DeadlineNotReached"

\* C16: every invocation that commits publishes exactly one event (a failing
\* invocation is rolled back with whatever it published), so the number of
\* events always equals the number of committed invocations.
C16_OneNotification == last.op # "none" => last.ev = 1

\* Sum of the per-contributor records.
RECURSIVE RecordSum(_)
RecordSum(contributors) ==
    IF DOMAIN contributors = {} THEN 0
    ELSE LET c == CHOOSE k \in DOMAIN contributors : TRUE
         IN contributors[c]
            + RecordSum([k \in (DOMAIN contributors) \ {c} |-> contributors[k]])

\* C17, in one state: a contribute that succeeds adds its amount to the
\* contributor's record and to total raised and changes nothing else, and
\* while the status is Funding or Funded total raised equals the sum of the
\* records.
C17_ContributeState ==
    pool.Initialized =>
      /\ \A c \in Parties, amount \in Amounts, oc \in BOOLEAN :
           LET r == PoolContribute(pool, c, c, amount, timestamp, oc) IN
           r.res = "Ok" =>
             r.st = [pool EXCEPT
                       !.Contributors =
                          MapSet(@, c, GetOrZero(pool.Contributors, c) + amount),
                       !.TotalRaised = @ + amount]
      /\ pool.Status \in {"Funding", "Funded"}
           => pool.TotalRaised = RecordSum(pool.Contributors)

\* C17, over a step: a record decreases only by being set to 0 by a refund.
C17_RecordStep ==
    \A c \in Parties :
      GetOrZero(pool'.Contributors, c) < GetOrZero(pool.Contributors, c)
        => /\ last'.op = "refund"
           /\ pool'.Contributors[c] = 0

\* C17: contribution accumulation (C17_ContributeState in every state,
\* C17_RecordStep over every step).
C17_Accumulation == []C17_ContributeState /\ [][C17_RecordStep]_vars

\* Every milestone of st is completed and every time slot released, and
\* there is at least one of them.
AllCredited(st) ==
    /\ Len(st.Milestones) + Len(st.TimeSchedule) > 0
    /\ \A i \in Indices(st.Milestones) : st.Milestones[i].completed
    /\ \A i \in Indices(st.TimeSchedule) : st.TimeSchedule[i].released

\* C18: in an initialized escrow the amounts credited so far (completed
\* milestones and released time slots) never exceed the total amount given
\* at initialize, and once every condition is credited their sum equals it.
C18_ReconcilesWithTotal ==
    escrow.Initialized =>
      /\ Credited(escrow) <= escrow.TotalAmount
      /\ AllCredited(escrow) => Credited(escrow) = escrow.TotalAmount

\* The status changes of the pool and of the transfer over a step: none, or
\* the first status at initialization, or Funding -> Funded / Failed and
\* Pending -> Completed / Cancelled.
ForwardPoolAndP2P ==
    /\ pool'.Status # pool.Status =>
         <<pool.Status, pool'.Status>>
           \in {<<"None", "Funding">>, <<"Funding", "Funded">>,
                <<"Funding", "Failed">>}
    /\ p2p'.Status # p2p.Status =>
         <<p2p.Status, p2p'.Status>>
           \in {<<"None", "Pending">>, <<"Pending", "Completed">>,
                <<"Pending", "Cancelled">>}

\* C19 as stated: the status of every instance only moves forward; for the
\* escrow, whose first status is Active, never returning to a status already
\* left and never leaving Completed means that no step enters Active from
\* another status and no step leaves Completed.
C19_ForwardOnly ==
    [][/\ ForwardPoolAndP2P
       /\ escrow'.Status # escrow.Status =>
            <<escrow.Status, escrow'.Status>>
              \in {<<"None", "Active">>, <<"Active", "Disputed">>,
                   <<"Active", "Completed">>,
                   <<"Disputed", "Completed">>}]_vars

\* C19 as amended: the same for the pool and the transfer; the escrow status
\* changes only Active -> Disputed, Disputed -> Active and Disputed ->
\* Completed, so a resolved dispute may bring it back to Active (and it may be
\* disputed again), and Completed is never left.
C19_ForwardOnlyAmended ==
    [][/\ ForwardPoolAndP2P
       /\ escrow'.Status # escrow.Status =>
            <<escrow.Status, escrow'.Status>>
              \in {<<"None", "Active">>, <<"Active", "Disputed">>,
                   <<"Disputed", "Active">>,
                   <<"Disputed", "Completed">>}]_vars

\* resolve_dispute has just committed and brought the escrow back to Active.
C19_Witness ==
    /\ last.op = "resolve_dispute"
    /\ escrow.Status = "Active"

\* C20: the stored released balance of an initialized escrow is never
\* negative.
C20_ReleasedNonNegative == escrow.Initialized => escrow.ReleasedAmount >= 0

\* C21: on an initialized pool no refund changes total raised, the amounts
\* returned by the committed refunds never exceed total raised, and while the
\* status is Failed they add up, with the records that remain, to total
\* raised.
C21_RefundConservation ==
    pool.Initialized =>
      /\ \A invoker \in Parties, contributor \in Parties :
           PoolRefund(pool, invoker, contributor).st.TotalRaised
             = pool.TotalRaised
      /\ refunded <= pool.TotalRaised
      /\ pool.Status = "Failed"
           => refunded + RecordSum(pool.Contributors) = pool.TotalRaised

\* The milestone at index j carries the id of an earlier milestone.
DuplicateId(milestones, j) ==
    \E i \in 1 .. (j - 1) : milestones[i].id = milestones[j].id

\* The smallest index whose milestone carries id (0 when there is none).
FirstWithId(milestones, id) ==
    IF \E i \in Indices(milestones) : milestones[i].id = id
    THEN CHOOSE i \in Indices(milestones) :
           /\ milestones[i].id = id
           /\ \A k \in 1 .. (i - 1) : milestones[k].id # id
    ELSE 0

\* C22: in every reachable escrow state a milestone that carries the id of
\* an earlier milestone is not completed; complete_milestone(id) signed by
\* the client either fails, with MilestoneAlreadyCompleted on an Active
\* escrow whose first milestone with that id is completed, or completes that
\* first milestone only and credits its amount and no other.
C22_FirstDuplicateOnly ==
    escrow.Initialized =>
      /\ \A j \in Indices(escrow.Milestones) :
           DuplicateId(escrow.Milestones, j) => ~escrow.Milestones[j].completed
      /\ \A id \in MilestoneIds, oc \in BOOLEAN :
           LET r == EscrowCompleteMilestone(escrow, escrow.Client, id,
                                            timestamp, oc)
               f == FirstWithId(escrow.Milestones, id)
           IN /\ (escrow.Status = "Active" /\ f # 0
                    /\ escrow.Milestones[f].completed)
                   => r.res = "MilestoneAlreadyCompleted"
              /\ r.res = "Ok" =>
                   /\ f # 0
                   /\ r.st = [escrow EXCEPT
                        !.Milestones[f].completed = TRUE,
                        !.Milestones[f].completed_at = timestamp,
                        !.ReleasedAmount =
                           Wrap(@ + escrow.Milestones[f].amount)]

\* complete_milestone has just committed on an escrow with two milestones of
\* the same id: the first is completed, the second is not.
C22_Witness ==
    /\ last.op = "complete_milestone"
    /\ Len(escrow.Milestones) >= 2
    /\ escrow.Milestones[1].id = escrow.Milestones[2].id
    /\ escrow.Milestones[1].completed
    /\ ~escrow.Milestones[2].completed

\* C23, in one state: on an initialized pool contribute succeeds for no
\* signer and no amount unless the status is Funding and the ledger time is
\* strictly before the deadline; from the deadline on, a contribute of a
\* positive amount signed by its contributor on a Funding pool fails with
\* DeadlineNotReached.
C23_ContributeWindow ==
    pool.Initialized =>
      \A invoker \in Parties, contributor \in Parties, amount \in Amounts,
         oc \in BOOLEAN :
        LET r == PoolContribute(pool, invoker, contributor, amount, timestamp,
                                oc)
        IN /\ r.res = "Ok" =>
                pool.Status = "Funding" /\ timestamp < pool.Deadline
           /\ (invoker = contributor /\ amount > 0 /\ pool.Status = "Funding"
                 /\ timestamp >= pool.Deadline)
                => r.res = "DeadlineNotReached" /\ r.st = pool

\* C23, over a step that starts at or after the deadline: the ledger time
\* does not go back, total raised, goal and deadline stay, the records change
\* only by a committed refund, and while the pool stays Funding the outcome
\* that finalize would give stays the same.
C23_AfterDeadlineStep ==
    (pool.Initialized /\ timestamp >= pool.Deadline) =>
      /\ timestamp' >= timestamp
      /\ pool'.TotalRaised = pool.TotalRaised
      /\ pool'.FundingGoal = pool.FundingGoal
      /\ pool'.Deadline = pool.Deadline
      /\ pool'.Contributors # pool.Contributors => last'.op = "refund"
      /\ (pool.Status = "Funding" /\ pool'.Status = "Funding") =>
           PoolFinalize(pool', timestamp').st.Status
             = PoolFinalize(pool, timestamp).st.Status

\* C23: contributions close at the deadline (C23_ContributeWindow in every
\* state, C23_AfterDeadlineStep over every step).
C23_ClosedAtDeadline ==
    []C23_ContributeWindow /\ [][C23_AfterDeadlineStep]_vars

\* A Funding pool that has met its goal and reached its deadline without
\* finalize having been called: a further contribute fails.
C23_Witness ==
    /\ pool.Initialized
    /\ pool.Status = "Funding"
    /\ timestamp >= pool.Deadline
    /\ pool.TotalRaised >= pool.FundingGoal
    /\ PoolContribute(pool, "carol", "carol", 2, timestamp, FALSE).res
         = "DeadlineNotReached"

\* C24, in one state: on an initialized escrow add_milestone,
\* add_time_release, complete_milestone, release_time_based and withdraw
\* leave the status as it is, whoever signs and whatever the arguments are.
C24_StatusKept ==
    escrow.Initialized =>
      \A invoker \in Parties, amount \in Amounts, oc \in BOOLEAN :
        /\ \A id \in MilestoneIds :
             /\ EscrowAddMilestone(escrow, invoker, id, amount).st.Status
                  = escrow.Status
             /\ EscrowCompleteMilestone(escrow, invoker, id, timestamp,
                                        oc).st.Status = escrow.Status
        /\ \A release_date \in Times :
             EscrowAddTimeRelease(escrow, invoker, release_date,
                                  amount).st.Status = escrow.Status
        /\ EscrowReleaseTimeBased(escrow, timestamp, oc).st.Status
             = escrow.Status
        /\ EscrowWithdraw(escrow, invoker, amount, oc).st.Status
             = escrow.Status

\* C24, over a step of an initialized escrow: the status leaves Active only
\* by a committed dispute, and becomes Completed only from Disputed by a
\* committed resolve_dispute.
C24_StatusStep ==
    (escrow.Initialized /\ escrow'.Status # escrow.Status) =>
      /\ escrow.Status = "Active" =>
           last'.op = "dispute" /\ escrow'.Status = "Disputed"
      /\ escrow'.Status = "Completed" =>
           last'.op = "resolve_dispute" /\ escrow.Status = "Disputed"

\* C24: Completed is reached only through resolve_dispute(Completed) on a
\* Disputed escrow, and an escrow that is never disputed stays Active
\* (C24_StatusKept in every state, C24_StatusStep over every step).
C24_CompletedOnlyByResolution ==
    []C24_StatusKept /\ [][C24_StatusStep]_vars

\* Every milestone is completed and the whole released balance has just been
\* withdrawn: the escrow is still Active.
C24_Witness ==
    /\ last.op = "withdraw"
    /\ escrow.Status = "Active"
    /\ Len(escrow.Milestones) > 0
    /\ \A i \in Indices(escrow.Milestones) : escrow.Milestones[i].completed
    /\ escrow.ReleasedAmount = 0

====
